---- MODULE Spec2Model ----
(***************************************************************************)
(* flanterm-rs: the safe wrapper (FlantermContext), the global registry    *)
(* (GLOBAL_FLANTERM behind a spin mutex) and the print entry point of      *)
(* src/src/lib.rs, as a state machine of threads calling into them.        *)
(*                                                                         *)
(* The specifications of the module:                                       *)
(*   Spec        threads creating, moving, using, dropping and installing  *)
(*               handles and calling with_global_flanterm / print!;        *)
(*   SpecFmt     Spec where an argument of a print may fail to format;     *)
(*   SpecPrintln Spec where the prints are println! calls;                 *)
(*   SpecWedge   Spec with a re-entrant operation and faults in the engine;*)
(*   SpecFair    Spec under fair scheduling, with repeated calls;          *)
(*   SpecAnsi    one handle's ANSI helpers (move_cursor, set_color, clear).*)
(***************************************************************************)
EXTENDS Integers, Sequences, FiniteSets, TLC

\* ---------------------------------------------------------------- bounds
MaxEngines == 2
MaxCalls == 2
\* usize is modelled at the narrowest pointer width Rust supports.
UsizeBits == 16

\* two threads: every race of the registry is a race between two callers
Threads == {1, 2}
Engines == 1..MaxEngines

\* ------------------------------------------------------- pointer values
\* *mut flanterm_context values: an engine instance's address is its number.
NULL == 0
\* the bytes of MaybeUninit::uninit() read as a pointer
Uninit == -1
\* a FlantermContext caught in the middle of MaybeUninit::write
Torn == -2

Ptrs == Engines \cup {NULL, Uninit, Torn}

\* Option<FlantermContext>: None, or Some(Self { ctx })
NoHandle == [has |-> FALSE, ctx |-> NULL]
SomeHandle(p) == [has |-> TRUE, ctx |-> p]

\* Option<R>
None == [some |-> FALSE, val |-> 0]
Some(v) == [some |-> TRUE, val |-> v]

\* ---------------------------------------------------------------- bytes
ESC == 27

\* The formatted texts print is called with.  A text is the sequence of
\* fragments core::fmt hands to Write::write_str, one per literal piece and
\* one per interpolated argument; a fragment is a str, that is its UTF-8
\* bytes.  print!("A") and print!("{}{}", "", "\u{e9}").
Texts ==
    { << <<65>> >>,
      << <<>>, <<195, 169>> >> }

\* In place of a fragment, FmtErr stands for an argument whose Display impl
\* returns Err(fmt::Error).  print!("A") and print!("B{}", failing).
FmtErr == <<-1>>
FallibleTexts ==
    { << <<65>> >>,
      << <<66>>, FmtErr >> }

\* println!() is print!("\n"); println!("A") is print!("{}\n", format_args!("A")),
\* whose fragments are those of the inner arguments and then "\n".
Newline == <<10>>
PrintlnNoNewline(txt) == txt
Println(txt) == txt \o <<Newline>>
PrintlnTexts == { Println(<<>>), Println(<< <<65>> >>) }

RECURSIVE Flatten(_)
Flatten(ss) == IF ss = <<>> THEN <<>> ELSE Head(ss) \o Flatten(Tail(ss))

\* str::as_bytes: a str is stored as its UTF-8 bytes, the slice is the same bytes
AsBytes(s) == s

VARIABLES
    locked,        \* the spin mutex's flag
    initialized,   \* GlobalFlantermState.initialized
    ctx,           \* GlobalFlantermState.ctx: the pointer inside the stored handle
    engState,      \* engine instance -> "unborn" | "live" | "dead"
    deinitCount,   \* engine instance -> number of flanterm_deinit calls on it
    badCalls,      \* pointers an engine call was issued on while not a live instance
    elog,          \* flanterm_write calls in delivery order: [print, ptr, bytes]
    pc,            \* thread -> position
    h,             \* thread -> the Option<FlantermContext> it owns
    arg,           \* thread -> the pointer of the handle moved into the running call
    kind,          \* thread -> "print" | "with" | "none": the closure of the running call
    callId,        \* thread -> id of the running print call (0 if none)
    text,          \* thread -> fragments of the running print call
    idx,           \* thread -> next fragment write_fmt hands to write_str
    saw,           \* thread -> the value of state.initialized the call read
    opCount,       \* thread -> times the running call invoked its closure
    ret,           \* thread -> the Option the running call returns
    initRes,       \* thread -> what flanterm_fb_init returned to the running new_fb
    nprints,       \* print calls made so far
    nwith,         \* with_global_flanterm calls (other than print) made so far
    installs,      \* init_global_flanterm calls that have returned
    lastInstalled, \* pointer of the handle of the last install that returned
    dropped,       \* engine instances whose owning handle has been destroyed
    early,         \* print calls that returned before any install returned
    ptext,         \* print call id -> its fragments
    pdone,         \* print calls that returned after reading initialized = true
    overwritten,   \* engine instances whose handle a later install overwrote
    acq,           \* print call ids in the order their calls acquired the lock
    aop,           \* SpecAnsi: the helper that is called
    ax, ay,        \* SpecAnsi: the coordinates move_cursor is called with
    afg, abg,      \* SpecAnsi: the colours set_color is called with (u8, Option<u8>)
    overflowChecks,\* SpecAnsi: whether the build has overflow-checks on
    apc,           \* SpecAnsi: position of the helper call
    afrags,        \* SpecAnsi: fragments the running write! still has to write
    aout,          \* SpecAnsi: the write_bytes calls received by the engine
    apanic         \* SpecAnsi: the call panicked

regVars == <<locked, initialized, ctx>>
engVars == <<engState, deinitCount, badCalls, elog>>
thrVars == <<pc, h, arg, kind, callId, text, idx, saw, opCount, ret, initRes>>
ghostVars == <<nprints, nwith, installs, lastInstalled, dropped, early, ptext, pdone,
              overwritten, acq>>
ansiVars == <<aop, ax, ay, afg, abg, overflowChecks, apc, afrags, aout, apanic>>
vars == <<regVars, engVars, thrVars, ghostVars, ansiVars>>

\* ------------------------------------------------------ rendering engine
\* The engine is an external collaborator: an instance is valid from a
\* successful flanterm_fb_init until flanterm_deinit.

\* flanterm_fb_init: a failure (null), or the address of a new instance
FbInitResults ==
    {NULL} \cup (IF \E e \in Engines : engState[e] = "unborn"
                 THEN {CHOOSE e \in Engines :
                          /\ engState[e] = "unborn"
                          /\ \A d \in Engines : engState[d] = "unborn" => e <= d}
                 ELSE {})

IsLive(p) == p \in Engines /\ engState[p] = "live"

\* any engine call on pointer p: recorded when p is not a live instance
BadAfter(p) == IF IsLive(p) THEN badCalls ELSE badCalls \cup {p}

\* flanterm_get_dimensions: the (columns, rows) of instance p, one number here
Dimensions(p) == 80 + p

\* ------------------------------------------------------- FlantermContext
\* new_fb's result for the pointer flanterm_fb_init returned
NewFbUnchecked(p) == SomeHandle(p)
NewFb(p) == IF p = NULL THEN NoHandle ELSE SomeHandle(p)

\* Drop::drop calls flanterm_deinit unless the pointer is null
DropCallsDeinit(p) == p # NULL

\* write_str hands s.as_bytes() to write_bytes, which hands them to flanterm_write
WriteStrLossy(s) == IF s = <<>> THEN <<>> ELSE SubSeq(s, 1, Len(s) - 1)
WriteStr(s) == AsBytes(s)

\* ---------------------------------------------------------- spin mutex
\* Mutex::lock spins until its compare-exchange of the flag succeeds
CanAcquireRacy == TRUE
CanAcquire == ~locked

\* ------------------------------------------------------------- registry
\* what a thread still owns of a handle it passed by value to init_global_flanterm
AfterMoveCopy(hd) == hd
AfterMove(hd) == NoHandle

\* state.ctx.write(ctx): the pointer the registry holds after the write
InstallWriteUnfinished(new) == ctx
InstallTarget(new) == new

\* MaybeUninit::write overwrites the old value without dropping it
OverwriteDropsOldValue == TRUE
OverwriteDropsOld == FALSE

\* state.initialized = true
InstallFlagToggled == ~initialized
InstallFlagForgotten == initialized
InstallFlag == TRUE

\* if state.initialized
CheckInitAlways == TRUE
CheckInit == initialized

\* the guard `state` lives to the end of with_global_flanterm: the flag of
\* the mutex while the closure runs
GuardDroppedEarly == FALSE
GuardHeldInClosure == TRUE

\* the flag of the mutex once the guard `state` has been dropped
GuardLeaked == TRUE
GuardRelease == FALSE

\* a fault inside the critical section: the guard is never dropped and nothing
\* else stores to the lock
LockFreedOnFault == FALSE
LockAfterFault == locked

\* let _ = ctx.write_fmt(args): the Result of write_fmt is discarded
FmtErrorUnwrapped == FALSE
FmtErrorIgnored == TRUE

\* Some(f(ctx)) / None
WithReturnNone(sawInit, r) == None
WithReturn(sawInit, r) == IF sawInit THEN Some(r) ELSE None

\* -------------------------------------------------------------- threads
Idle(t) == pc[t] = "idle"

\* the per-call locals of a thread that is not in a call
ResetLocals(t) ==
    /\ arg' = [arg EXCEPT ![t] = NULL]
    /\ kind' = [kind EXCEPT ![t] = "none"]
    /\ callId' = [callId EXCEPT ![t] = 0]
    /\ text' = [text EXCEPT ![t] = <<>>]
    /\ idx' = [idx EXCEPT ![t] = 0]
    /\ saw' = [saw EXCEPT ![t] = FALSE]
    /\ opCount' = [opCount EXCEPT ![t] = 0]
    /\ ret' = [ret EXCEPT ![t] = None]
    /\ initRes' = [initRes EXCEPT ![t] = NULL]

InitRegistry ==
    /\ locked = FALSE
    /\ initialized = FALSE
    /\ ctx = Uninit

InitEngines ==
    /\ engState = [e \in Engines |-> "unborn"]
    /\ deinitCount = [e \in Engines |-> 0]
    /\ badCalls = {}
    /\ elog = <<>>

InitThreads ==
    /\ pc = [t \in Threads |-> "idle"]
    /\ h = [t \in Threads |-> NoHandle]
    /\ arg = [t \in Threads |-> NULL]
    /\ kind = [t \in Threads |-> "none"]
    /\ callId = [t \in Threads |-> 0]
    /\ text = [t \in Threads |-> <<>>]
    /\ idx = [t \in Threads |-> 0]
    /\ saw = [t \in Threads |-> FALSE]
    /\ opCount = [t \in Threads |-> 0]
    /\ ret = [t \in Threads |-> None]
    /\ initRes = [t \in Threads |-> NULL]

InitGhost ==
    /\ nprints = 0
    /\ nwith = 0
    /\ installs = 0
    /\ lastInstalled = NULL
    /\ dropped = {}
    /\ early = {}
    /\ ptext = <<>>
    /\ pdone = {}
    /\ overwritten = {}
    /\ acq = <<>>

AnsiIdle ==
    /\ aop = "none"
    /\ ax = 0
    /\ ay = 0
    /\ afg = 0
    /\ abg = None
    /\ overflowChecks = FALSE
    /\ apc = "off"
    /\ afrags = <<>>
    /\ aout = <<>>
    /\ apanic = FALSE

Init == InitRegistry /\ InitEngines /\ InitThreads /\ InitGhost /\ AnsiIdle

\* ---- FlantermContext::new_fb
\* new_fb calls flanterm_fb_init and returns None or Some(Self { ctx })
Create(t) ==
    /\ Idle(t)
    /\ ~h[t].has
    /\ \E r \in FbInitResults :
          /\ initRes' = [initRes EXCEPT ![t] = r]
          /\ engState' = IF r = NULL THEN engState ELSE [engState EXCEPT ![r] = "live"]
          /\ h' = [h EXCEPT ![t] = NewFb(r)]
    /\ pc' = [pc EXCEPT ![t] = "c_done"]
    /\ UNCHANGED <<regVars, deinitCount, badCalls, elog, arg, kind, callId, text,
                   idx, saw, opCount, ret, ghostVars, ansiVars>>

\* the caller has taken new_fb's result
CreateDone(t) ==
    /\ pc[t] = "c_done"
    /\ pc' = [pc EXCEPT ![t] = "idle"]
    /\ ResetLocals(t)
    /\ UNCHANGED <<regVars, engVars, h, ghostVars, ansiVars>>

\* ---- a method of a handle the thread owns (flush): one engine call
Use(t) ==
    /\ Idle(t)
    /\ h[t].has
    /\ badCalls' = BadAfter(h[t].ctx)
    /\ UNCHANGED <<regVars, engState, deinitCount, elog, thrVars, ghostVars, ansiVars>>

\* ---- a handle is Send: the owner hands it to another thread
Transfer(t, u) ==
    /\ t # u
    /\ Idle(t) /\ Idle(u)
    /\ h[t].has /\ ~h[u].has
    /\ h' = [h EXCEPT ![t] = NoHandle, ![u] = h[t]]
    /\ UNCHANGED <<regVars, engVars, pc, arg, kind, callId, text, idx, saw, opCount,
                   ret, initRes, ghostVars, ansiVars>>

\* ---- Drop for FlantermContext: the owner's handle goes out of scope
DropHandle(t) ==
    /\ Idle(t)
    /\ h[t].has
    /\ LET p == h[t].ctx IN
          /\ IF DropCallsDeinit(p)
             THEN /\ badCalls' = BadAfter(p)
                  /\ engState' = IF p \in Engines
                                 THEN [engState EXCEPT ![p] = "dead"] ELSE engState
                  /\ deinitCount' = IF p \in Engines
                                    THEN [deinitCount EXCEPT ![p] = @ + 1] ELSE deinitCount
             ELSE UNCHANGED <<badCalls, engState, deinitCount>>
          /\ dropped' = dropped \cup {p}
    /\ h' = [h EXCEPT ![t] = NoHandle]
    /\ UNCHANGED <<regVars, elog, pc, arg, kind, callId, text, idx, saw, opCount, ret,
                   initRes, nprints, nwith, installs, lastInstalled, early, ptext,
                   pdone, overwritten, acq, ansiVars>>

\* ---- init_global_flanterm(ctx)
\* the call: the handle is moved into the function
InstallCall(t) ==
    /\ Idle(t)
    /\ h[t].has
    /\ arg' = [arg EXCEPT ![t] = h[t].ctx]
    /\ h' = [h EXCEPT ![t] = AfterMove(h[t])]
    /\ pc' = [pc EXCEPT ![t] = "i_lock"]
    /\ UNCHANGED <<regVars, engVars, kind, callId, text, idx, saw, opCount, ret,
                   initRes, ghostVars, ansiVars>>

\* let mut state = GLOBAL_FLANTERM.lock();
InstallLock(t) ==
    /\ pc[t] \in {"i_lock", "r_ilock"}
    /\ CanAcquire
    /\ locked' = TRUE
    /\ pc' = [pc EXCEPT ![t] = "i_write"]
    /\ UNCHANGED <<initialized, ctx, engVars, h, arg, kind, callId, text, idx, saw,
                   opCount, ret, initRes, ghostVars, ansiVars>>

\* state.ctx.write(ctx) is a plain store of the value: it begins ...
InstallWriteBegin(t) ==
    /\ pc[t] = "i_write"
    /\ ctx' = Torn
    /\ overwritten' = IF initialized THEN overwritten \cup {ctx} ELSE overwritten
    /\ IF OverwriteDropsOld /\ initialized /\ DropCallsDeinit(ctx)
       THEN /\ badCalls' = BadAfter(ctx)
            /\ engState' = IF ctx \in Engines
                           THEN [engState EXCEPT ![ctx] = "dead"] ELSE engState
            /\ deinitCount' = IF ctx \in Engines
                              THEN [deinitCount EXCEPT ![ctx] = @ + 1] ELSE deinitCount
       ELSE UNCHANGED <<badCalls, engState, deinitCount>>
    /\ pc' = [pc EXCEPT ![t] = "i_write2"]
    /\ UNCHANGED <<locked, initialized, elog, h, arg, kind, callId, text, idx, saw,
                   opCount, ret, initRes, nprints, nwith, installs, lastInstalled,
                   dropped, early, ptext, pdone, acq, ansiVars>>

\* ... and ends; the value it overwrites is not dropped
InstallWriteEnd(t) ==
    /\ pc[t] = "i_write2"
    /\ ctx' = InstallTarget(arg[t])
    /\ pc' = [pc EXCEPT ![t] = "i_flag"]
    /\ UNCHANGED <<locked, initialized, engVars, h, arg, kind, callId, text, idx, saw,
                   opCount, ret, initRes, ghostVars, ansiVars>>

\* state.initialized = true;
InstallSetFlag(t) ==
    /\ pc[t] = "i_flag"
    /\ initialized' = InstallFlag
    /\ pc' = [pc EXCEPT ![t] = "i_unlock"]
    /\ UNCHANGED <<locked, ctx, engVars, h, arg, kind, callId, text, idx, saw,
                   opCount, ret, initRes, ghostVars, ansiVars>>

\* the guard is dropped and the function returns
InstallUnlock(t) ==
    /\ pc[t] = "i_unlock"
    /\ locked' = GuardRelease
    /\ installs' = installs + 1
    /\ lastInstalled' = arg[t]
    /\ pc' = [pc EXCEPT ![t] = "idle"]
    /\ ResetLocals(t)
    /\ UNCHANGED <<initialized, ctx, engVars, h, nprints, nwith, dropped, early,
                   ptext, pdone, overwritten, acq, ansiVars>>

\* ---- with_global_flanterm(f) and _print(args)
\* a call of with_global_flanterm with the closure |c| c.get_dimensions()
WithCall(t) ==
    /\ Idle(t)
    /\ nprints + nwith < MaxCalls
    /\ nwith' = nwith + 1
    /\ kind' = [kind EXCEPT ![t] = "with"]
    /\ pc' = [pc EXCEPT ![t] = "w_lock"]
    /\ UNCHANGED <<regVars, engVars, h, arg, callId, text, idx, saw, opCount, ret,
                   initRes, nprints, installs, lastInstalled, dropped, early, ptext,
                   pdone, overwritten, acq, ansiVars>>

\* a call of _print(args): with_global_flanterm with the closure
\* |ctx| { let _ = ctx.write_fmt(args); }
PrintFrom(t, texts) ==
    /\ Idle(t)
    /\ nprints + nwith < MaxCalls
    /\ \E txt \in texts :
          /\ text' = [text EXCEPT ![t] = txt]
          /\ ptext' = Append(ptext, txt)
    /\ nprints' = nprints + 1
    /\ callId' = [callId EXCEPT ![t] = nprints + 1]
    /\ idx' = [idx EXCEPT ![t] = 1]
    /\ kind' = [kind EXCEPT ![t] = "print"]
    /\ pc' = [pc EXCEPT ![t] = "w_lock"]
    /\ UNCHANGED <<regVars, engVars, h, arg, saw, opCount, ret, initRes, nwith,
                   installs, lastInstalled, dropped, early, pdone, overwritten, acq,
                   ansiVars>>

PrintCall(t) == PrintFrom(t, Texts)

\* let mut state = GLOBAL_FLANTERM.lock();
WithLock(t) ==
    /\ pc[t] \in {"w_lock", "r_lock"}
    /\ CanAcquire
    /\ locked' = TRUE
    /\ acq' = IF kind[t] = "print" THEN Append(acq, callId[t]) ELSE acq
    /\ pc' = [pc EXCEPT ![t] = "w_check"]
    /\ UNCHANGED <<initialized, ctx, engVars, h, arg, kind, callId, text, idx, saw,
                   opCount, ret, initRes, nprints, nwith, installs, lastInstalled,
                   dropped, early, ptext, pdone, overwritten, ansiVars>>

\* if state.initialized { let ctx = assume_init_mut(); Some(f(ctx)) } else { None }
WithCheck(t) ==
    /\ pc[t] = "w_check"
    /\ saw' = [saw EXCEPT ![t] = CheckInit]
    /\ IF CheckInit
       THEN /\ opCount' = [opCount EXCEPT ![t] = @ + 1]
            /\ locked' = GuardHeldInClosure
            /\ pc' = [pc EXCEPT ![t] = "f_call"]
            /\ ret' = ret
       ELSE /\ ret' = [ret EXCEPT ![t] = WithReturn(FALSE, 0)]
            /\ pc' = [pc EXCEPT ![t] = "w_unlock"]
            /\ UNCHANGED <<opCount, locked>>
    /\ UNCHANGED <<initialized, ctx, engVars, h, arg, kind, callId, text, idx,
                   initRes, ghostVars, ansiVars>>

\* the closure |c| c.get_dimensions(): flanterm_get_dimensions(self.ctx, ..)
OpCall(t) ==
    /\ pc[t] = "f_call"
    /\ kind[t] = "with"
    /\ arg' = [arg EXCEPT ![t] = ctx]
    /\ badCalls' = BadAfter(ctx)
    /\ pc' = [pc EXCEPT ![t] = "op_in"]
    /\ UNCHANGED <<regVars, engState, deinitCount, elog, h, kind, callId, text, idx,
                   saw, opCount, ret, initRes, ghostVars, ansiVars>>

\* the engine call returns, the closure returns its result
OpRet(t) ==
    /\ pc[t] = "op_in"
    /\ ret' = [ret EXCEPT ![t] = WithReturn(saw[t], Dimensions(arg[t]))]
    /\ pc' = [pc EXCEPT ![t] = "w_unlock"]
    /\ UNCHANGED <<regVars, engVars, h, arg, kind, callId, text, idx, saw, opCount,
                   initRes, ghostVars, ansiVars>>

\* write_fmt hands the next fragment to write_str, which calls
\* flanterm_write(self.ctx, bytes); after the last one the closure returns ()
PrintWrite(t) ==
    /\ pc[t] = "f_call"
    /\ kind[t] = "print"
    /\ IF idx[t] <= Len(text[t]) /\ text[t][idx[t]] # FmtErr
       THEN /\ elog' = Append(elog, [print |-> callId[t], ptr |-> ctx,
                                     bytes |-> WriteStr(text[t][idx[t]])])
            /\ arg' = [arg EXCEPT ![t] = ctx]
            /\ badCalls' = BadAfter(ctx)
            /\ pc' = [pc EXCEPT ![t] = "p_in"]
            /\ ret' = ret
       ELSE \* write_fmt has returned: Ok(()) after the last fragment, or the
            \* Err of the argument that failed, and the closure drops it
            /\ IF idx[t] > Len(text[t]) \/ FmtErrorIgnored
               THEN /\ ret' = [ret EXCEPT ![t] = WithReturn(saw[t], 0)]
                    /\ pc' = [pc EXCEPT ![t] = "w_unlock"]
               ELSE /\ ret' = ret
                    /\ pc' = [pc EXCEPT ![t] = "panicked"]
            /\ UNCHANGED <<elog, arg, badCalls>>
    /\ UNCHANGED <<regVars, engState, deinitCount, h, kind, callId, text, idx, saw,
                   opCount, initRes, ghostVars, ansiVars>>

\* flanterm_write returns
PrintWriteRet(t) ==
    /\ pc[t] = "p_in"
    /\ idx' = [idx EXCEPT ![t] = @ + 1]
    /\ pc' = [pc EXCEPT ![t] = "f_call"]
    /\ UNCHANGED <<regVars, engVars, h, arg, kind, callId, text, saw, opCount, ret,
                   initRes, ghostVars, ansiVars>>

\* the guard is dropped and with_global_flanterm returns
WithUnlock(t) ==
    /\ pc[t] = "w_unlock"
    /\ locked' = GuardRelease
    /\ early' = IF kind[t] = "print" /\ installs = 0
                THEN early \cup {callId[t]} ELSE early
    /\ pdone' = IF kind[t] = "print" /\ saw[t]
                THEN pdone \cup {callId[t]} ELSE pdone
    /\ pc' = [pc EXCEPT ![t] = "w_done"]
    /\ UNCHANGED <<initialized, ctx, engVars, h, arg, kind, callId, text, idx, saw,
                   opCount, ret, initRes, nprints, nwith, installs, lastInstalled,
                   dropped, ptext, overwritten, acq, ansiVars>>

\* the caller has taken the result
WithDone(t) ==
    /\ pc[t] = "w_done"
    /\ pc' = [pc EXCEPT ![t] = "idle"]
    /\ ResetLocals(t)
    /\ UNCHANGED <<regVars, engVars, h, ghostVars, ansiVars>>

\* every step of a thread except the choice of what it prints
Step(t) ==
    \/ Create(t) \/ CreateDone(t)
    \/ Use(t)
    \/ \E u \in Threads : Transfer(t, u)
    \/ DropHandle(t)
    \/ InstallCall(t) \/ InstallLock(t) \/ InstallWriteBegin(t)
    \/ InstallWriteEnd(t) \/ InstallSetFlag(t) \/ InstallUnlock(t)
    \/ WithCall(t) \/ WithLock(t) \/ WithCheck(t)
    \/ OpCall(t) \/ OpRet(t) \/ PrintWrite(t) \/ PrintWriteRet(t)
    \/ WithUnlock(t) \/ WithDone(t)

Next == \E t \in Threads : Step(t) \/ PrintCall(t)

Spec == Init /\ [][Next]_vars

\* ------------------------------------------------------------ SpecFmt
\* The same program where an argument of a print may fail to format.

\* print!("B{}", failing) or print!("A")
PrintFallible(t) == PrintFrom(t, FallibleTexts)

NextFmt == \E t \in Threads : Step(t) \/ PrintFallible(t)

SpecFmt == Init /\ [][NextFmt]_vars

\* ------------------------------------------------------------ SpecWedge
\* The same program where the operation passed to with_global_flanterm may
\* call back into the registry, and where a thread may fault inside an engine
\* call.

\* the closure calls print!/with_global_flanterm (r_lock) or
\* init_global_flanterm with a handle it owns (r_ilock) on its own thread:
\* the inner call starts at its GLOBAL_FLANTERM.lock()
Reenter(t) ==
    /\ pc[t] = "f_call"
    /\ kind[t] = "with"
    /\ \E inner \in {"r_lock", "r_ilock"} :
          /\ inner = "r_ilock" => h[t].has
          /\ pc' = [pc EXCEPT ![t] = inner]
    /\ UNCHANGED <<regVars, engVars, h, arg, kind, callId, text, idx, saw, opCount,
                   ret, initRes, ghostVars, ansiVars>>

\* the thread faults inside the engine call (an illegal memory access, say)
\* and executes nothing more: no unwinding, no guard drop
Fault(t) ==
    /\ pc[t] \in {"op_in", "p_in"}
    /\ locked' = LockAfterFault
    /\ pc' = [pc EXCEPT ![t] = "faulted"]
    /\ UNCHANGED <<initialized, ctx, engVars, h, arg, kind, callId, text, idx, saw,
                   opCount, ret, initRes, ghostVars, ansiVars>>

NextWedge == \E t \in Threads : Step(t) \/ PrintCall(t) \/ Reenter(t) \/ Fault(t)

SpecWedge == Init /\ [][NextWedge]_vars

\* ------------------------------------------------------------ SpecFair
\* The same program under fair scheduling, where a thread may call
\* with_global_flanterm any number of times.

\* a call of with_global_flanterm that a thread may repeat without bound
WithCallAgain(t) ==
    /\ Idle(t)
    /\ kind' = [kind EXCEPT ![t] = "with"]
    /\ pc' = [pc EXCEPT ![t] = "w_lock"]
    /\ UNCHANGED <<regVars, engVars, h, arg, callId, text, idx, saw, opCount, ret,
                   initRes, ghostVars, ansiVars>>

NextFair == \E t \in Threads : Step(t) \/ PrintCall(t) \/ WithCallAgain(t)

\* what a thread that is scheduled does inside a call it has begun: the next
\* step of the call, which at lock() is the compare-exchange that succeeds
\* only when the flag is clear
Run(t) ==
    \/ CreateDone(t)
    \/ InstallLock(t) \/ InstallWriteBegin(t) \/ InstallWriteEnd(t)
    \/ InstallSetFlag(t) \/ InstallUnlock(t)
    \/ WithLock(t) \/ WithCheck(t)
    \/ OpCall(t) \/ OpRet(t) \/ PrintWrite(t) \/ PrintWriteRet(t)
    \/ WithUnlock(t) \/ WithDone(t)

\* every thread is scheduled again and again, and every engine call returns
SpecFair == Init /\ [][NextFair]_vars /\ \A t \in Threads : WF_vars(Run(t))

\* ------------------------------------------------------------ SpecPrintln
\* The same program where every print is a println.

\* println!() or println!("A")
PrintlnCall(t) == PrintFrom(t, PrintlnTexts)

NextPrintln == \E t \in Threads : Step(t) \/ PrintlnCall(t)

SpecPrintln == Init /\ [][NextPrintln]_vars

\* ------------------------------------------------------------ SpecAnsi
\* The ANSI helpers of one handle that owns a live instance; aout is the
\* sequence of write_bytes calls its engine receives.

UsizeMax == 2^UsizeBits - 1

\* the coordinates tried: the spec's examples, a carry into a new digit, the top
Coords == {0, 4, 9, 98, 99, UsizeMax - 1, UsizeMax}

\* impl Display for usize: the decimal digits, most significant first
RECURSIVE Decimal(_)
Decimal(n) == IF n < 10 THEN <<48 + n>> ELSE Decimal(n \div 10) \o <<48 + (n % 10)>>

\* v + 1 on usize overflows exactly at usize::MAX
AddOneOverflows(v) == v + 1 > UsizeMax
\* ... and where the build does not check, the sum wraps
AddOne(v) == (v + 1) % (2^UsizeBits)

\* the fragments of write!(self, "\x1b[{};{}H", row, col)
CursorFragments(row, col) ==
    << <<ESC, 91>>, Decimal(row), <<59>>, Decimal(col), <<72>> >>

\* u8::MAX
U8Max == 255

\* the fragments of write!(self, "\x1b[38;5;{}m\x1b[48;5;{}m", fg, bg) and of
\* write!(self, "\x1b[38;5;{}m", fg)
SetColorSwapped(fg, bg) ==
    IF bg.some
    THEN << <<ESC, 91, 52, 56, 59, 53, 59>>, Decimal(bg.val),
            <<109, ESC, 91, 51, 56, 59, 53, 59>>, Decimal(fg), <<109>> >>
    ELSE << <<ESC, 91, 51, 56, 59, 53, 59>>, Decimal(fg), <<109, ESC, 91, 52, 57, 109>> >>
SetColorFragments(fg, bg) ==
    IF bg.some
    THEN << <<ESC, 91, 51, 56, 59, 53, 59>>, Decimal(fg),
            <<109, ESC, 91, 52, 56, 59, 53, 59>>, Decimal(bg.val), <<109>> >>
    ELSE << <<ESC, 91, 51, 56, 59, 53, 59>>, Decimal(fg), <<109>> >>

\* the str clear() hands to write_str: "\x1b[2J\x1b[H"
ClearTextNoHome == <<ESC, 91, 50, 74>>
ClearText == <<ESC, 91, 50, 74, ESC, 91, 72>>

\* write_str returns Ok(()) after write_bytes, whatever the bytes
WriteStrOk == TRUE

InitAnsi ==
    /\ InitRegistry /\ InitEngines /\ InitThreads /\ InitGhost
    /\ aop \in {"move_cursor", "set_color", "clear"}
    /\ IF aop = "move_cursor"
       THEN ax \in Coords /\ ay \in Coords /\ overflowChecks \in BOOLEAN
       ELSE ax = 0 /\ ay = 0 /\ overflowChecks = FALSE
    /\ IF aop = "set_color"
       THEN afg \in 0..U8Max /\ abg \in {None} \cup {Some(b) : b \in 0..U8Max}
       ELSE afg = 0 /\ abg = None
    /\ apc = "call"
    /\ afrags = <<>>
    /\ aout = <<>>
    /\ apanic = FALSE

\* move_cursor(x, y): y + 1 and x + 1 are evaluated, then write! runs.  With
\* overflow checks (a debug build) an overflowing sum panics; without them it wraps.
MoveCursor ==
    /\ apc = "call"
    /\ aop = "move_cursor"
    /\ IF overflowChecks /\ (AddOneOverflows(ay) \/ AddOneOverflows(ax))
       THEN /\ apanic' = TRUE
            /\ apc' = "panicked"
            /\ afrags' = afrags
       ELSE /\ afrags' = CursorFragments(AddOne(ay), AddOne(ax))
            /\ apc' = "writing"
            /\ apanic' = apanic
    /\ UNCHANGED <<regVars, engVars, thrVars, ghostVars, aop, ax, ay, afg, abg,
                   overflowChecks, aout>>

\* set_color(fg, bg): one of the two write! calls runs
SetColor ==
    /\ apc = "call"
    /\ aop = "set_color"
    /\ afrags' = SetColorFragments(afg, abg)
    /\ apc' = "writing"
    /\ UNCHANGED <<regVars, engVars, thrVars, ghostVars, aop, ax, ay, afg, abg,
                   overflowChecks, aout, apanic>>

\* clear(): self.write_str("\x1b[2J\x1b[H").unwrap()
Clear ==
    /\ apc = "call"
    /\ aop = "clear"
    /\ aout' = Append(aout, WriteStr(ClearText))
    /\ apanic' = ~WriteStrOk
    /\ apc' = IF WriteStrOk THEN "done" ELSE "panicked"
    /\ UNCHANGED <<regVars, engVars, thrVars, ghostVars, aop, ax, ay, afg, abg,
                   overflowChecks, afrags>>

\* write_fmt hands the next fragment to write_str, which calls write_bytes
AnsiWriteStr ==
    /\ apc = "writing"
    /\ afrags # <<>>
    /\ aout' = Append(aout, WriteStr(Head(afrags)))
    /\ afrags' = Tail(afrags)
    /\ apc' = IF Tail(afrags) = <<>> THEN "done" ELSE "writing"
    /\ UNCHANGED <<regVars, engVars, thrVars, ghostVars, aop, ax, ay, afg, abg,
                   overflowChecks, apanic>>

NextAnsi == MoveCursor \/ SetColor \/ Clear \/ AnsiWriteStr

SpecAnsi == InitAnsi /\ [][NextAnsi]_vars

\* ============================================================== claims

\* thread t is between Mutex::lock returning and its guard being dropped
HoldsLock(t) ==
    pc[t] \in {"i_write", "i_write2", "i_flag", "i_unlock",
               "w_check", "f_call", "op_in", "p_in", "w_unlock",
               "r_lock", "r_ilock", "faulted"}

\* thread t is inside the closure with_global_flanterm invoked
InClosure(t) == pc[t] \in {"f_call", "op_in", "p_in"}

\* thread t is inside an engine call, on pointer arg[t]
InEngine(t) == pc[t] \in {"op_in", "p_in"}

\* the flanterm_write calls of print call c, in delivery order
WritesOf(c) == SelectSeq(elog, LAMBDA r : r.print = c)
BytesOf(c) == [i \in 1..Len(WritesOf(c)) |-> WritesOf(c)[i].bytes]

\* C1: the engine writes of one print call are contiguous in the delivery
\* order: between two writes of the same print call there is no write of
\* another print call, also when the print is delivered as several writes.
C1_PrintBytesContiguous ==
    \A i \in 1..Len(elog) : \A j \in i..Len(elog) :
        elog[i].print = elog[j].print
            => \A k \in i..j : elog[k].print = elog[i].print

\* C1 witness: a print of two fragments has delivered its first fragment and
\* not yet its second while another print call is spinning on the lock.
C1_Witness ==
    \E t \in Threads : \E u \in Threads \ {t} :
        /\ kind[t] = "print" /\ pc[t] = "f_call"
        /\ Len(text[t]) = 2 /\ idx[t] = 2
        /\ kind[u] = "print" /\ pc[u] = "w_lock"

\* C2: at most one thread holds the registry lock, and at most one thread is
\* inside a call into the engine instance the registry holds.
C2_MutualExclusion ==
    /\ Cardinality({t \in Threads : HoldsLock(t)}) <= 1
    /\ Cardinality({t \in Threads : InEngine(t) /\ arg[t] = ctx}) <= 1
    /\ (\E t \in Threads : HoldsLock(t)) => locked

\* C2 witness: one thread is inside flanterm_write on the registry's instance
\* while the other is spinning on the lock inside init_global_flanterm.
C2_Witness ==
    \E t \in Threads : \E u \in Threads \ {t} :
        /\ InEngine(t) /\ arg[t] = ctx
        /\ pc[u] = "i_lock"

\* C3: a print call that returned before any install returned has no write
\* in the engine log, whatever the pointer, at any later time; it returned
\* None without invoking its closure.
C3_EarlyPrintsDiscarded ==
    /\ \A i \in 1..Len(elog) : elog[i].print \notin early
    /\ \A t \in Threads :
          (pc[t] = "w_done" /\ kind[t] = "print" /\ callId[t] \in early)
              => (ret[t] = None /\ opCount[t] = 0)

\* C3 witness: a print returned before the install, the install followed and
\* a later print has been delivered to the installed instance.
C3_Witness ==
    /\ early # {}
    /\ installs >= 1
    /\ pdone # {}
    /\ Len(elog) >= 1

\* a thread can observe the registry: the lock is free or was just acquired
Observable ==
    \/ ~locked
    \/ \E t \in Threads : pc[t] \in {"w_check", "i_write"}

\* C4: in every observable state of the registry, initialized is true exactly
\* when the registry's handle owns a live engine instance.
C4_FlagMatchesHandle ==
    Observable => (initialized <=> IsLive(ctx))

\* C4 witness: a caller has just acquired the lock of an initialized registry
\* after an install and a teardown of another handle.
C4_Witness ==
    /\ initialized
    /\ dropped # {}
    /\ \E t \in Threads : pc[t] = "w_check"

\* C5: a with_global_flanterm call that read initialized = false returns None
\* and never invoked its closure; one that read true invoked it exactly once,
\* on the stored handle and with the lock held, and returns Some of its
\* result.  After the return the caller no longer holds the lock.
C5_WithInstanceContract ==
    \A t \in Threads :
        /\ (pc[t] \in {"w_unlock", "w_done"} /\ ~saw[t])
              => (ret[t] = None /\ opCount[t] = 0)
        /\ (pc[t] \in {"w_unlock", "w_done"} /\ saw[t])
              => /\ opCount[t] = 1
                 /\ ret[t] = Some(IF kind[t] = "with" THEN Dimensions(arg[t]) ELSE 0)
        /\ InClosure(t) => (locked /\ saw[t] /\ opCount[t] = 1)
        /\ InEngine(t) => arg[t] = ctx
        /\ pc[t] = "w_done"
              => (locked => \E u \in Threads \ {t} : HoldsLock(u))

\* C5 witness: a with_global_flanterm call has returned Some(dimensions).
C5_Witness ==
    \E t \in Threads :
        /\ pc[t] = "w_done" /\ kind[t] = "with"
        /\ saw[t] /\ ret[t].some /\ ~locked

\* C6: an engine instance is torn down at most once, and exactly when the
\* handle that owns it is destroyed; no engine call is issued on a pointer
\* that is not a live instance.
C6_TeardownOnce ==
    /\ \A e \in Engines :
          /\ deinitCount[e] <= 1
          /\ (deinitCount[e] = 1) <=> (e \in dropped)
          /\ (engState[e] = "dead") <=> (e \in dropped)
    /\ badCalls = {}

\* C6 witness: one handle has been destroyed and its instance torn down,
\* another has been installed and written to by a print.
C6_Witness ==
    /\ \E e \in Engines : deinitCount[e] = 1
    /\ installs >= 1
    /\ \E i \in 1..Len(elog) : IsLive(elog[i].ptr)

\* the formatting of text txt succeeds: no argument's Display impl fails
Formats(txt) == \A i \in 1..Len(txt) : txt[i] # FmtErr

\* C7 as stated: every print that found the registry initialized, and whose
\* formatting succeeds, results in exactly one write_bytes call, whose bytes
\* are the whole formatted text.
C7_OneWritePerPrint ==
    \A c \in pdone :
        Formats(ptext[c])
            => /\ Len(WritesOf(c)) = 1
               /\ WritesOf(c)[1].bytes = Flatten(ptext[c])

\* C7 amended: every print that found the registry initialized, and whose
\* formatting succeeds, results in one write_bytes call per fragment of the
\* formatted text, in order, each with that fragment's bytes, so that the
\* calls' bytes concatenated are the bytes of the whole text; a text of one
\* fragment results in one call.
C7_OneWritePerFragment ==
    \A c \in pdone :
        Formats(ptext[c])
            => /\ BytesOf(c) = ptext[c]
               /\ Flatten(BytesOf(c)) = Flatten(ptext[c])
               /\ Len(ptext[c]) = 1 => Len(WritesOf(c)) = 1

\* C7 witness: a print of two fragments has returned after delivering them.
C7_Witness ==
    \E c \in pdone : Formats(ptext[c]) /\ Len(ptext[c]) = 2 /\ Len(WritesOf(c)) = 2

\* C8: once an install has returned, the unlocked registry is initialized and
\* holds the handle of the last install; a closure runs only on that handle,
\* never on an empty or half-written one.
C8_ReinstallConsistent ==
    /\ (installs >= 1 /\ ~locked) => (initialized /\ ctx = lastInstalled)
    /\ \A t \in Threads :
          /\ InClosure(t) => (ctx = lastInstalled /\ IsLive(ctx))
          /\ InEngine(t) => (arg[t] = lastInstalled /\ IsLive(arg[t]))

\* C8 witness: after a second install a print is inside flanterm_write on the
\* second handle's instance.
C8_Witness ==
    /\ installs = 2
    /\ \E t \in Threads : pc[t] = "p_in" /\ arg[t] = lastInstalled

\* C9: new_fb returns None exactly when flanterm_fb_init returned null; no
\* handle holds a null pointer, and no engine call or teardown is issued on
\* null.
C9_CreateNoneIffNull ==
    /\ \A t \in Threads :
          /\ pc[t] = "c_done"
                => /\ (~h[t].has) <=> (initRes[t] = NULL)
                   /\ h[t].has => h[t].ctx = initRes[t]
          /\ h[t].has => h[t].ctx # NULL
    /\ initialized => ctx # NULL
    /\ NULL \notin badCalls
    /\ NULL \notin dropped

\* C9 witness: a new_fb call has returned None after a null from the engine,
\* while an earlier one had succeeded.
C9_Witness ==
    \E t \in Threads :
        /\ pc[t] = "c_done" /\ initRes[t] = NULL /\ ~h[t].has
        /\ \E e \in Engines : engState[e] = "live"

\* C10 as stated: for every x and y of the coordinate type, its maximum
\* included, move_cursor(x, y) neither panics nor wraps and the engine
\* receives exactly ESC [ {y+1} ; {x+1} H.
C10_MoveCursorAllCoords ==
    aop = "move_cursor"
        => /\ ~apanic
           /\ apc = "done"
                 => Flatten(aout) =
                       <<ESC, 91>> \o Decimal(ay + 1) \o <<59>> \o Decimal(ax + 1)
                                  \o <<72>>

\* C11: set_color(fg, None) delivers exactly ESC[38;5;{fg}m and nothing else;
\* set_color(fg, Some(bg)) delivers exactly ESC[38;5;{fg}m ESC[48;5;{bg}m,
\* foreground first.  set_color(7, None) and set_color(7, Some(0)) are the
\* byte strings the specification gives.
C11_SetColorBytes ==
    (aop = "set_color" /\ apc = "done")
        => /\ ~apanic
           /\ Flatten(aout) =
                 <<27, 91, 51, 56, 59, 53, 59>> \o Decimal(afg) \o <<109>>
                    \o (IF abg.some
                        THEN <<27, 91, 52, 56, 59, 53, 59>> \o Decimal(abg.val) \o <<109>>
                        ELSE <<>>)
           /\ (afg = 7 /\ abg = None)
                 => Flatten(aout) = <<27, 91, 51, 56, 59, 53, 59, 55, 109>>
           /\ (afg = 7 /\ abg = Some(0))
                 => Flatten(aout) = <<27, 91, 51, 56, 59, 53, 59, 55, 109,
                                      27, 91, 52, 56, 59, 53, 59, 48, 109>>
           /\ (afg = 255 /\ abg = Some(100))
                 => Flatten(aout) = <<27, 91, 51, 56, 59, 53, 59, 50, 53, 53, 109,
                                      27, 91, 52, 56, 59, 53, 59, 49, 48, 48, 109>>

\* C11 witness: set_color(255, Some(100)) has returned.
C11_Witness ==
    aop = "set_color" /\ apc = "done" /\ afg = 255 /\ abg = Some(100)

\* C12: clear() delivers exactly ESC[2J ESC[H, the clear-screen sequence
\* followed by the cursor-home sequence, and does not panic.
C12_ClearBytes ==
    aop = "clear"
        => /\ ~apanic
           /\ apc # "panicked"
           /\ apc = "done"
                 => /\ Flatten(aout) = <<27, 91, 50, 74, 27, 91, 72>>
                    /\ Flatten(aout) = <<27, 91, 50, 74>> \o <<27, 91, 72>>

\* C12 witness: clear() has returned.
C12_Witness ==
    aop = "clear" /\ apc = "done" /\ Len(aout) = 1

\* print call c acquired the lock before print call d did
AcquiredBefore(c, d) ==
    \E i, j \in 1..Len(acq) : i < j /\ acq[i] = c /\ acq[j] = d

\* what write_fmt hands to write_str: the fragments before the first failure
FirstFailure(txt) ==
    IF Formats(txt) THEN Len(txt) + 1
    ELSE CHOOSE i \in 1..Len(txt) :
            txt[i] = FmtErr /\ \A j \in 1..(i - 1) : txt[j] # FmtErr
Delivered(txt) == SubSeq(txt, 1, FirstFailure(txt) - 1)

\* thread t is in the critical section of a print whose formatting fails
InFailingPrint(t) ==
    /\ kind[t] = "print" /\ saw[t] /\ ~Formats(text[t])
    /\ pc[t] \in {"f_call", "p_in", "w_unlock"}

\* C13: a formatting failure inside print is swallowed.  No print ever
\* panics; a print whose formatting fails returns Some(()) from the registry
\* like any other, with the lock released and the registry still initialized
\* with the same handle; the engine has received the fragments before the
\* failure, and every print that formats, later ones included, is delivered
\* in full.
C13_FmtFailureSwallowed ==
    /\ [](/\ \A t \in Threads : pc[t] # "panicked"
          /\ locked => \E u \in Threads : HoldsLock(u)
          /\ \A c \in pdone :
                /\ BytesOf(c) = Delivered(ptext[c])
                /\ Formats(ptext[c]) => BytesOf(c) = ptext[c])
    /\ [][\A t \in Threads :
             InFailingPrint(t)
                 => /\ initialized /\ initialized' /\ ctx' = ctx
                    /\ pc'[t] \in {"f_call", "p_in", "w_unlock", "w_done"}
                    /\ pc'[t] = "w_done"
                          => /\ ~locked'
                             /\ ret'[t] = Some(0)
                             /\ callId[t] \in pdone']_vars

\* C13 witness: a print whose formatting failed after one fragment has
\* returned, and a print that acquired the lock after it was delivered in full
\* by the same instance.
C13_Witness ==
    /\ ~locked /\ initialized
    /\ \E c, d \in pdone :
          /\ ~Formats(ptext[c]) /\ Len(WritesOf(c)) = 1
          /\ Formats(ptext[d]) /\ BytesOf(d) = ptext[d]
          /\ AcquiredBefore(c, d)
          /\ WritesOf(c)[1].ptr = WritesOf(d)[1].ptr

\* C14: the registry begins uninitialized, the flag goes from false to true
\* only in the flag assignment of an install and never goes back: once an
\* install has completed the flag is true in every later state, whatever
\* calls follow, a second install included.
C14_InitializedOnce ==
    /\ ~initialized
    /\ [](installs >= 1 => initialized)
    /\ [][/\ initialized => initialized'
          /\ (~initialized /\ initialized')
                => \E t \in Threads : pc[t] = "i_flag" /\ pc'[t] = "i_unlock"]_vars

\* C14 witness: a second install has completed, a print was delivered, and
\* the registry is initialized.
C14_Witness ==
    installs = 2 /\ initialized /\ ~locked /\ pdone # {}

\* C17: a second install overwrites the stored handle without tearing the
\* prior one down.  An instance whose handle was overwritten in the registry
\* is never torn down, at the overwrite or later, it is not the instance the
\* registry holds, and no engine call of a with_instance or print is on it
\* from then on.
C17_OverwriteNoTeardown ==
    /\ \A e \in overwritten :
          /\ e \in Engines
          /\ deinitCount[e] = 0 /\ engState[e] = "live" /\ e \notin dropped
          /\ ctx # e
          /\ \A t \in Threads : InEngine(t) => arg[t] # e
    /\ \A i, j \in 1..Len(elog) :
          (i < j /\ elog[j].ptr \in overwritten) => elog[i].ptr \in overwritten

\* C17 witness: a print was delivered to the first installed instance, a
\* second install overwrote it, and a later print is inside the engine on the
\* second instance.
C17_Witness ==
    /\ installs = 2 /\ overwritten # {}
    /\ \E i \in 1..Len(elog) : elog[i].ptr \in overwritten
    /\ \E t \in Threads : pc[t] = "p_in" /\ arg[t] = ctx /\ ctx \in Engines

\* the print calls that have returned
Returned == pdone \cup early

\* thread t is in print call c, which has not returned
InPrint(t, c) ==
    /\ kind[t] = "print" /\ callId[t] = c
    /\ pc[t] \in {"w_lock", "w_check", "f_call", "p_in", "w_unlock"}

\* C18: the engine receives the blocks of print calls in the order in which
\* the calls acquired the lock: of two writes of different prints, the earlier
\* is of the print that acquired first, and every write is of the print that
\* acquired last.  A print that has returned has acquired the lock and writes
\* nothing more, and a print that begins has neither acquired nor written, so
\* a print that returned before another began acquires and is delivered
\* before it.  A print that has not returned is the current call of a thread,
\* so the prints of one thread are such pairs, in program order.
C18_DeliveryInLockOrder ==
    /\ [](/\ \A i, j \in 1..Len(elog) :
                (i < j /\ elog[i].print # elog[j].print)
                    => AcquiredBefore(elog[i].print, elog[j].print)
          /\ \A i, j \in 1..Len(acq) : acq[i] = acq[j] => i = j
          /\ \A c \in Returned : \E i \in 1..Len(acq) : acq[i] = c
          /\ \A c \in (1..nprints) \ Returned : \E t \in Threads : InPrint(t, c))
    /\ [][/\ nprints' # nprints
                => /\ nprints' = nprints + 1
                   /\ \E t \in Threads :
                         /\ Idle(t) /\ pc'[t] = "w_lock"
                         /\ kind'[t] = "print" /\ callId'[t] = nprints'
                   /\ \A i \in 1..Len(acq') : acq'[i] # nprints'
                   /\ \A i \in 1..Len(elog') : elog'[i].print # nprints'
          /\ acq' # acq
                => \E t \in Threads :
                      /\ InPrint(t, callId[t]) /\ callId[t] \notin Returned
                      /\ acq' = Append(acq, callId[t])
          /\ elog' # elog
                => \E t \in Threads :
                      /\ InPrint(t, callId[t]) /\ callId[t] \notin Returned
                      /\ callId[t] = acq[Len(acq)]
                      /\ Len(elog') = Len(elog) + 1
                      /\ SubSeq(elog', 1, Len(elog)) = elog
                      /\ elog'[Len(elog')].print = callId[t]
          /\ Returned \subseteq Returned']_vars

\* C18 witness: the print that began second acquired the lock first, and its
\* block was delivered before the block of the print that began first.
C18_Witness ==
    /\ acq = <<2, 1>> /\ pdone = {1, 2}
    /\ Len(elog) >= 2
    /\ elog[1].print = 2 /\ elog[Len(elog)].print = 1

\* C19: println emits its text and the trailing newline inside one critical
\* section.  Every println that found the registry initialized delivered its
\* text and then the newline, with no write of another print or println
\* between its writes, and a println with no arguments delivered exactly the
\* one byte "\n"; a println that has delivered its text and not yet its
\* newline holds the lock.
C19_PrintlnAtomic ==
    /\ \A c \in pdone :
          /\ Len(ptext[c]) >= 1 /\ ptext[c][Len(ptext[c])] = <<10>>
          /\ BytesOf(c) = ptext[c]
          /\ ptext[c] = Println(<<>>) => Flatten(BytesOf(c)) = <<10>>
          /\ ptext[c] = Println(<< <<65>> >>) => Flatten(BytesOf(c)) = <<65, 10>>
    /\ \A i \in 1..Len(elog) : \A j \in i..Len(elog) :
          elog[i].print = elog[j].print
              => \A k \in i..j : elog[k].print = elog[i].print
    /\ \A t \in Threads :
          (InPrint(t, callId[t]) /\ WritesOf(callId[t]) # <<>>)
              => /\ locked
                 /\ \A u \in Threads \ {t} : ~HoldsLock(u)
                 /\ elog[Len(elog)].print = callId[t]

\* C19 witness: println!() and println!("A") ran concurrently and both
\* returned; the engine received "\n", then "A" and its "\n".
C19_Witness ==
    /\ pdone = {1, 2} /\ ~locked
    /\ ptext[1] = Println(<< <<65>> >>) /\ ptext[2] = Println(<<>>)
    /\ acq = <<2, 1>>
    /\ [i \in 1..Len(elog) |-> elog[i].bytes] = << <<10>>, <<65>>, <<10>> >>

\* thread t is inside the operation of a with_global_flanterm call, in an
\* inner call of the registry that is at its lock()
Reentered(t) == pc[t] \in {"r_lock", "r_ilock"}

\* C16: an operation passed to with_instance that calls print, with_instance
\* or install on the same thread deadlocks.  From the inner call's lock() on,
\* the lock stays held, the inner call does not acquire it, the outer call
\* does not return, and no other thread acquires the lock or returns from a
\* call of the registry: whoever calls stays at its lock().
C16_ReentryDeadlocks ==
    [][\A t \in Threads :
          Reentered(t)
              => /\ locked /\ locked'
                 /\ pc'[t] = pc[t]
                 /\ installs' = installs /\ Returned' = Returned
                 /\ initialized' = initialized /\ ctx' = ctx /\ elog' = elog
                 /\ \A u \in Threads \ {t} :
                       /\ ~HoldsLock(u) /\ ~HoldsLock(u)'
                       /\ pc[u] \in {"w_lock", "i_lock"} => pc'[u] = pc[u]
                       /\ pc'[u] = "w_done" => pc[u] = "w_done"]_vars

\* C16 witness: the operation of one thread has called back into the
\* registry and is at the inner lock(), and a later print call of the other
\* thread is at its lock().
C16_Witness ==
    \E t \in Threads : \E u \in Threads \ {t} :
        /\ pc[t] = "r_lock" /\ kind[t] = "with" /\ saw[t]
        /\ pc[u] = "w_lock" /\ kind[u] = "print"
        /\ locked

\* C20: a caller that acquires the lock and faults inside the critical
\* section never releases it.  From the fault on the lock stays held and no
\* other thread acquires it or returns from an install, with_instance or
\* print call: whoever calls stays at its lock().
C20_FaultWedgesLock ==
    [][\A t \in Threads :
          pc[t] = "faulted"
              => /\ locked /\ locked'
                 /\ pc'[t] = "faulted"
                 /\ installs' = installs /\ Returned' = Returned
                 /\ \A u \in Threads \ {t} :
                       /\ \/ pc'[u] = pc[u]
                          \/ pc'[u] \in {"idle", "c_done", "w_lock", "i_lock"}
                       /\ pc[u] \in {"w_lock", "i_lock"} => pc'[u] = pc[u]]_vars

\* C20 witness: a print faulted inside flanterm_write, and an install and
\* nothing else of the other thread is at its lock().
C20_Witness ==
    \E t \in Threads : \E u \in Threads \ {t} :
        /\ pc[t] = "faulted" /\ kind[t] = "print"
        /\ pc[u] = "i_lock"
        /\ locked

\* thread t is inside a call of init_global_flanterm, with_global_flanterm
\* or _print that has not returned
InRegistryCall(t) ==
    pc[t] \in {"i_lock", "i_write", "i_write2", "i_flag", "i_unlock",
               "w_lock", "w_check", "f_call", "op_in", "p_in", "w_unlock"}

\* C15 as stated: under fair scheduling, with engine calls and operations
\* that terminate and do not re-enter the registry, every install,
\* with_instance and print call runs to completion: a caller contending for
\* the lock eventually acquires it and returns.
C15_EveryCallCompletes ==
    \A t \in Threads : InRegistryCall(t) ~> ~InRegistryCall(t)

====
